---- MODULE Spec2Model ----
(***************************************************************************)
(* A model of twisted.protocols.basic: NetstringReceiver, LineReceiver,    *)
(* Int32StringReceiver and StatefulStringProtocol, and of                  *)
(* twisted.web.distrib.ResourceSubscription.  An object is a record of its *)
(* attributes;                                                             *)
(* every method is an operator from the object (and its arguments) to the  *)
(* object after the call.  Calls of the overridable callbacks              *)
(* (stringReceived, lineReceived, rawDataReceived) are logged in the       *)
(* record, in the order in which the code makes them.  Strings are         *)
(* sequences of one-character strings (netstring, line) or of byte values  *)
(* 0..255 (int32).                                                         *)
(***************************************************************************)
EXTENDS Integers, Sequences, FiniteSets, TLC

VARIABLES
    ns,         \* the NetstringReceiver object
    nsFed,      \* every byte passed to ns.dataReceived so far, in order
    nsCut,      \* Len(nsFed) before the latest dataReceived call
    sent,       \* the payloads passed to sendString, in order
    wire,       \* bytes written to the transport and not yet delivered
    i32,        \* the Int32StringReceiver object
    i32Fed,     \* every byte passed to i32.dataReceived so far, in order
    i32Cut,     \* Len(i32Fed) before the latest dataReceived call
    lr,         \* the LineReceiver object (of an application's subclass)
    lrFed,      \* every byte the environment passed to lr.dataReceived
                \* (or to lr.setLineMode, as extra) so far, in order
    lrCut,      \* Len(lrFed) before the latest dataReceived call
    lrOp,       \* the method of lr the environment called last
    sp,         \* an object of a class that mixes StatefulStringProtocol
                \* with NetstringReceiver or with Int32StringReceiver
    spFed,      \* every byte passed to sp.dataReceived so far, in order
    spCut,      \* Len(spFed) before the latest dataReceived call
    rs,         \* the ResourceSubscription object
    rsRendered, \* the number of requests the site has passed to rs.render;
                \* request i is the i-th of them
    rsReported, \* the number of connection attempts that have reported, by
                \* connected or by notConnected
    rsLive      \* the brokers that have connected and not yet disconnected

nsVars == <<ns, nsFed, nsCut, sent, wire>>
i32Vars == <<i32, i32Fed, i32Cut>>
lrVars == <<lr, lrFed, lrCut, lrOp>>
spVars == <<sp, spFed, spCut>>
rsVars == <<rs, rsRendered, rsReported, rsLive>>
vars == <<nsVars, i32Vars, lrVars, spVars, rsVars>>

(***************************************************************************)
(* Bounds of the model.                                                    *)
(***************************************************************************)
MaxFed == 7         \* total bytes fed to a NetstringReceiver
MaxPayload == 10    \* longest payload passed to sendString
MaxFed32 == 8       \* total bytes fed to an Int32StringReceiver
MaxFedLR == 6       \* total bytes fed to a LineReceiver
MaxBody == 2        \* longest raw body the application asks for
MaxFedLRX == 3      \* total bytes passed to a LineReceiver whose modes the
                    \* application also switches outside the callbacks
MaxCallsLRX == 3    \* calls logged before the application's last such switch
MaxFedSP == 6       \* total bytes fed to a stateful NetstringReceiver
MaxRequests == 5     \* requests passed to a ResourceSubscription
MaxFedSP32 == 9     \* total bytes fed to a stateful Int32StringReceiver

\* the bytes the environment may feed to a NetstringReceiver
NSBytes == {"0", "1", ":", ",", "a"}
\* the bytes a payload passed to sendString is made of
PayloadBytes == {"1", ","}

\* the byte values the environment may feed to an Int32StringReceiver:
\* 0 and 1 make small lengths, 251 and 255 make headers with the top bit set
I32Bytes == {0, 1, 251, 255}

\* the bytes the environment may feed to a stateful NetstringReceiver
SPBytes == {"1", ":", ",", "a"}
\* the byte values the environment may feed to a stateful
\* Int32StringReceiver
SPBytes32 == {0, 1}
\* the names a state handler may return, and the states that may have a
\* handler
States == {"init", "a", "done"}
Handled == {"init", "a"}

\* the bytes the environment may feed to a LineReceiver
LRBytes == {"a", "r", "n"}
\* the delimiters a LineReceiver subclass may set
Delimiters == {<<"n">>, <<"r", "n">>, <<"r", "r">>}
\* the lines on which the application may switch to raw mode
RawLines == {<<>>, <<"a">>}

SeqsUpTo(S, n) == UNION {[1..k -> S] : k \in 0..n}

\* s[from+1 ..], Python's s[from:] for 0 <= from
Drop(s, from) == SubSeq(s, from + 1, Len(s))
\* s[.. to], Python's s[:to] for 0 <= to
Take(s, to) == SubSeq(s, 1, IF to < Len(s) THEN to ELSE Len(s))

(***************************************************************************)
(* NetstringReceiver                                                       *)
(***************************************************************************)
LENGTH == 0
DATA == 1
COMMA == 2

Digits == {"0", "1", "2", "3", "4", "5", "6", "7", "8", "9"}

DigitVal(c) ==
    CASE c = "0" -> 0 [] c = "1" -> 1 [] c = "2" -> 2 [] c = "3" -> 3
      [] c = "4" -> 4 [] c = "5" -> 5 [] c = "6" -> 6 [] c = "7" -> 7
      [] c = "8" -> 8 [] c = "9" -> 9

\* Python's int(s) on a string of decimal digits
RECURSIVE int(_)
int(s) ==
    IF s = <<>> THEN 0
    ELSE 10 * int(SubSeq(s, 1, Len(s) - 1)) + DigitVal(s[Len(s)])

RECURSIVE Pow10(_)
Pow10(n) == IF n = 0 THEN 1 ELSE 10 * Pow10(n - 1)

\* the length of the longest prefix of s made of digits: group 1 of NUMBER
RECURSIVE DigitRun(_)
DigitRun(s) ==
    IF s = <<>> \/ Head(s) \notin Digits THEN 0 ELSE 1 + DigitRun(Tail(s))

\* NUMBER = re.compile('(\d*)(:?)'), matched at the start of s
NUMBER(s) ==
    LET d == DigitRun(s)
        colon == d < Len(s) /\ s[d + 1] = ":"
    IN  [group1 |-> SubSeq(s, 1, d),
         group2 |-> IF colon THEN <<":">> ELSE <<>>,
         end    |-> d + (IF colon THEN 1 ELSE 0)]

(***************************************************************************)
(* StatefulStringProtocol, the mixin that overrides stringReceived of a    *)
(* NetstringReceiver or an Int32StringReceiver.                            *)
(***************************************************************************)
\* one step of stringReceived, as logged in the object's trace: op names
\* what was called, state is self.state at that moment, arg the frame
Ev(op, state, arg) == [op |-> op, state |-> state, arg |-> arg]

\* An object of class C(StatefulStringProtocol, base): the attributes of the
\* base receiver and the class attribute state.  handlers maps every state
\* s for which the class defines a method proto_<s> to the state name that
\* method returns; trace logs the calls of stringReceived, of the state
\* handlers, of print and of transport.loseConnection, in order.
StatefulStringProtocol(base, handlers) ==
    base @@ [state |-> "init", handlers |-> handlers, trace |-> <<>>]

\* stringReceived ignoring what the state handler returns
stringReceived_keepState(self, string) ==
    LET s0 == [self EXCEPT !.trace =
                   Append(@, Ev("stringReceived", self.state, string))]
    IN  IF self.state \notin DOMAIN self.handlers
        THEN [s0 EXCEPT !.trace = Append(@, Ev("print", self.state, <<>>))]
        ELSE [s0 EXCEPT !.trace = Append(@, Ev("proto", self.state, string))]

\* stringReceived losing the connection after every state handler
stringReceived_alwaysLose(self, string) ==
    LET s0 == [self EXCEPT !.trace =
                   Append(@, Ev("stringReceived", self.state, string))]
    IN  IF self.state \notin DOMAIN self.handlers
        THEN [s0 EXCEPT !.trace = Append(@, Ev("print", self.state, <<>>))]
        ELSE LET s1 == [s0 EXCEPT
                     !.trace = Append(@, Ev("proto", self.state, string)),
                     !.state = self.handlers[self.state]]
             IN  [s1 EXCEPT !.trace =
                      Append(@, Ev("loseConnection", s1.state, <<>>))]

\* stringReceived losing the connection when the state has no handler
stringReceived_loseOnMiss(self, string) ==
    LET s0 == [self EXCEPT !.trace =
                   Append(@, Ev("stringReceived", self.state, string))]
    IN  IF self.state \notin DOMAIN self.handlers
        THEN [s0 EXCEPT !.trace =
                  Append(@, Ev("loseConnection", self.state, <<>>))]
        ELSE LET s1 == [s0 EXCEPT
                     !.trace = Append(@, Ev("proto", self.state, string)),
                     !.state = self.handlers[self.state]]
             IN  IF s1.state = "done"
                 THEN [s1 EXCEPT !.trace =
                           Append(@, Ev("loseConnection", s1.state, <<>>))]
                 ELSE s1

\* getattr(self, 'proto_' + self.state) fails with AttributeError when the
\* class has no such method
stringReceived(self, string) ==
    LET s0 == [self EXCEPT !.trace =
                   Append(@, Ev("stringReceived", self.state, string))]
    IN  IF self.state \notin DOMAIN self.handlers
        THEN [s0 EXCEPT !.trace = Append(@, Ev("print", self.state, <<>>))]
        ELSE LET s1 == [s0 EXCEPT
                     !.trace = Append(@, Ev("proto", self.state, string)),
                     !.state = self.handlers[self.state]]
             IN  IF s1.state = "done"
                 THEN [s1 EXCEPT !.trace =
                           Append(@, Ev("loseConnection", s1.state, <<>>))]
                 ELSE s1

(***************************************************************************)
(* NetstringReceiver: the object and its methods                           *)
(***************************************************************************)
\* A NetstringReceiver as constructed: the class attributes mode and length.
\* buffer and data are the private __buffer and __data; frames logs the
\* arguments of stringReceived; raised records a NetstringParseError that
\* left dataReceived; iters counts the iterations of dataReceived's loop in
\* the latest call.
NetstringReceiver ==
    [mode |-> LENGTH, length |-> 0, buffer |-> <<>>, data |-> <<>>,
     frames |-> <<>>, raised |-> FALSE, iters |-> 0]

\* self.stringReceived: the method of the object's class, which is the
\* mixin's when the class is a StatefulStringProtocol
NS_stringReceived(self, line) ==
    LET s1 == [self EXCEPT !.frames = Append(@, line)]
    IN  IF "state" \in DOMAIN self THEN stringReceived(s1, line) ELSE s1

\* doData passing on what has come of the payload, complete or not
doData_early(self) ==
    LET buffer == Take(self.data, self.length)
        s1 == [self EXCEPT !.data = Drop(self.data, Len(buffer)),
                           !.length = self.length - Len(buffer),
                           !.buffer = self.buffer \o buffer]
    IN  [NS_stringReceived(s1, s1.buffer) EXCEPT
            !.mode = IF s1.length # 0 THEN DATA ELSE COMMA]

doData(self) ==
    LET buffer == Take(self.data, self.length)
        s1 == [self EXCEPT !.data = Drop(self.data, Len(buffer)),
                           !.length = self.length - Len(buffer),
                           !.buffer = self.buffer \o buffer]
    IN  IF s1.length # 0 THEN s1
        ELSE [NS_stringReceived(s1, s1.buffer) EXCEPT !.mode = COMMA]

\* doComma without the check of the terminator
doComma_unchecked(self) ==
    [self EXCEPT !.mode = LENGTH, !.data = Tail(self.data)]

doComma(self) ==
    LET s1 == [self EXCEPT !.mode = LENGTH]
    IN  IF s1.data[1] # ","
        THEN [s1 EXCEPT !.raised = TRUE]
        ELSE [s1 EXCEPT !.data = Tail(s1.data)]

\* doLength that takes the digits of this chunk alone as the length
doLength_restart(self) ==
    LET m == NUMBER(self.data)
        s1 == [self EXCEPT !.data = Drop(self.data, m.end)]
        s2 == IF m.group1 # <<>>
              THEN [s1 EXCEPT !.length = int(m.group1)]
              ELSE s1
    IN  IF m.end = 0 THEN [self EXCEPT !.raised = TRUE]
        ELSE IF m.group2 # <<>>
             THEN [s2 EXCEPT !.buffer = <<>>, !.mode = DATA]
             ELSE s2

\* doLength that skips a byte it cannot parse instead of raising
doLength_skip(self) ==
    LET m == NUMBER(self.data)
        s1 == [self EXCEPT !.data = Drop(self.data, m.end)]
        s2 == IF m.group1 # <<>>
              THEN [s1 EXCEPT !.length =
                        self.length * Pow10(Len(m.group1)) + int(m.group1)]
              ELSE s1
    IN  IF m.end = 0 THEN [self EXCEPT !.data = Tail(self.data)]
        ELSE IF m.group2 # <<>>
             THEN [s2 EXCEPT !.buffer = <<>>, !.mode = DATA]
             ELSE s2

doLength(self) ==
    LET m == NUMBER(self.data)
        s1 == [self EXCEPT !.data = Drop(self.data, m.end)]
        s2 == IF m.group1 # <<>>
              THEN [s1 EXCEPT !.length =
                        self.length * Pow10(Len(m.group1)) + int(m.group1)]
              ELSE s1
    IN  IF m.end = 0 THEN [self EXCEPT !.raised = TRUE]
        ELSE IF m.group2 # <<>>
             THEN [s2 EXCEPT !.buffer = <<>>, !.mode = DATA]
             ELSE s2

\* one iteration of dataReceived's while loop
NS_iteration(self) ==
    LET s1 == [self EXCEPT !.iters = @ + 1]
    IN  CASE self.mode = DATA -> doData(s1)
          [] self.mode = COMMA -> doComma(s1)
          [] self.mode = LENGTH -> doLength(s1)

\* while self.__data: ...   (an exception leaves the loop and the call)
RECURSIVE NS_loop(_)
NS_loop(self) ==
    IF self.data = <<>> \/ self.raised THEN self
    ELSE NS_loop(NS_iteration(self))

NS_dataReceived(self, data) ==
    NS_loop([self EXCEPT !.data = data, !.iters = 0])

\* '%d' % n
RECURSIVE FormatD(_)
FormatD(n) ==
    LET digit == CHOOSE c \in Digits : DigitVal(c) = n % 10
    IN  IF n < 10 THEN <<digit>> ELSE Append(FormatD(n \div 10), digit)

\* sendString without the trailing comma
NS_sendString_nocomma(data) == FormatD(Len(data)) \o <<":">> \o data

\* what sendString hands to transport.write
NS_sendString(data) == FormatD(Len(data)) \o <<":">> \o data \o <<",">>

(***************************************************************************)
(* Int32StringReceiver                                                     *)
(***************************************************************************)
\* Python's s[i:j] for any integers i and j: a negative index counts from
\* the end, and both are clamped to 0..len(s)
PyIndex(s, i) ==
    IF i < 0 THEN (IF Len(s) + i < 0 THEN 0 ELSE Len(s) + i)
    ELSE (IF i > Len(s) THEN Len(s) ELSE i)

Slice(s, i, j) == SubSeq(s, PyIndex(s, i) + 1, PyIndex(s, j))

\* Python's s[i:]
SliceFrom(s, i) == SubSeq(s, PyIndex(s, i) + 1, Len(s))

\* struct.unpack("!i", b): four bytes as a signed big-endian integer
unpack_i(b) ==
    (IF b[1] >= 128 THEN b[1] - 256 ELSE b[1]) * 16777216
        + b[2] * 65536 + b[3] * 256 + b[4]

\* An Int32StringReceiver as constructed: the class attribute recvd.  frames
\* logs the arguments of stringReceived; iters counts the iterations of
\* dataReceived's loop in the latest call; hung records that the latest call
\* never returns.
Int32StringReceiver ==
    [recvd |-> <<>>, frames |-> <<>>, iters |-> 0, hung |-> FALSE]

\* self.stringReceived: the method of the object's class, which is the
\* mixin's when the class is a StatefulStringProtocol
I32_stringReceived(self, packet) ==
    LET s1 == [self EXCEPT !.frames = Append(@, packet)]
    IN  IF "state" \in DOMAIN self THEN stringReceived(s1, packet) ELSE s1

\* the loop body dropping the payload's length, not the header's as well
I32_iteration_keepHeader(self) ==
    LET length == unpack_i(SubSeq(self.recvd, 1, 4))
        packet == Slice(self.recvd, 4, length + 4)
        s1 == [self EXCEPT !.recvd = SliceFrom(self.recvd, length),
                           !.iters = @ + 1]
    IN  I32_stringReceived(s1, packet)

\* the body of dataReceived's loop after the break test
I32_iteration(self) ==
    LET length == unpack_i(SubSeq(self.recvd, 1, 4))
        packet == Slice(self.recvd, 4, length + 4)
        s1 == [self EXCEPT !.recvd = SliceFrom(self.recvd, length + 4),
                           !.iters = @ + 1]
    IN  I32_stringReceived(s1, packet)

\* while len(self.recvd) > 3: ...
\* An iteration that leaves recvd as it was is followed by the same
\* iteration, without end: stringReceived is called again and again and
\* dataReceived does not return.
RECURSIVE I32_loop(_)
I32_loop(self) ==
    IF Len(self.recvd) <= 3 THEN self
    ELSE IF Len(self.recvd) < unpack_i(SubSeq(self.recvd, 1, 4)) + 4 THEN self
    ELSE LET s1 == I32_iteration(self)
         IN  IF s1.recvd = self.recvd THEN [s1 EXCEPT !.hung = TRUE]
             ELSE I32_loop(s1)

I32_dataReceived(self, recd) ==
    I32_loop([self EXCEPT !.recvd = self.recvd \o recd, !.iters = 0])

(***************************************************************************)
(* LineReceiver                                                            *)
(***************************************************************************)
\* the index of the first occurrence of d in s, 0 when there is none (or d
\* is empty): where string.split(s, d, 1) splits, or fails to
Find(s, d) ==
    LET at == {i \in 1..(Len(s) - Len(d) + 1) : SubSeq(s, i, i + Len(d) - 1) = d}
    IN  IF d = <<>> \/ at = {} THEN 0
        ELSE CHOOSE i \in at : \A j \in at : i <= j

\* A LineReceiver as constructed: the class attributes line_mode and buffer,
\* and the delimiter of the subclass.  calls logs, in order, the calls of
\* lineReceived, rawDataReceived, setRawMode and setLineMode; iters counts
\* the lines split off since the environment's latest call.  The subclass
\* overrides the two callbacks: lineReceived calls setRawMode on a line in
\* rawOn; rawDataReceived, when handsBack, takes bodyLen bytes as a body and
\* hands the bytes after them back with setLineMode; need is the part of
\* the body still to come.
LineReceiver(delimiter, rawOn, handsBack, bodyLen) ==
    [line_mode |-> 1, buffer |-> <<>>, delimiter |-> delimiter,
     calls |-> <<>>, iters |-> 0,
     rawOn |-> rawOn, handsBack |-> handsBack, bodyLen |-> bodyLen,
     need |-> 0]

Call(op, arg) == [op |-> op, arg |-> arg]

\* setRawMode discarding what is buffered
setRawMode_dropping(self) ==
    [self EXCEPT !.line_mode = 0, !.buffer = <<>>,
                 !.calls = Append(@, Call("setRawMode", <<>>))]

setRawMode(self) ==
    [self EXCEPT !.line_mode = 0, !.calls = Append(@, Call("setRawMode", <<>>))]

\* the application's switch to raw mode: it expects a body of bodyLen bytes
App_setRawMode(self) ==
    [setRawMode(self) EXCEPT !.need = self.bodyLen]

lineReceived(self, line) ==
    LET s1 == [self EXCEPT !.calls = Append(@, Call("lineReceived", line))]
    IN  IF line \in self.rawOn THEN App_setRawMode(s1) ELSE s1

RECURSIVE LR_loop(_)
RECURSIVE rawDataReceived(_, _)
RECURSIVE setLineMode(_, _)

\* dataReceived that replaces the buffer by the new data
dataReceived_forget(self, data) ==
    LR_loop([self EXCEPT !.buffer = data])

dataReceived(self, data) ==
    LR_loop([self EXCEPT !.buffer = self.buffer \o data])

\* the loop leaving by a break, past the else clause, when a line callback
\* has switched the mode
RECURSIVE LR_loop_deferred(_)
LR_loop_deferred(self) ==
    IF self.line_mode # 0
    THEN LET i == Find(self.buffer, self.delimiter)
             line == SubSeq(self.buffer, 1, i - 1)
             s1 == [self EXCEPT
                       !.buffer = Drop(self.buffer, i - 1 + Len(self.delimiter)),
                       !.iters = @ + 1]
             s2 == lineReceived(s1, line)
         IN  IF i = 0 THEN self
             ELSE IF s2.line_mode = 0 THEN s2
             ELSE LR_loop_deferred(s2)
    ELSE LET data == self.buffer
             s1 == [self EXCEPT !.buffer = <<>>]
         IN  IF data # <<>> THEN rawDataReceived(s1, data) ELSE s1

\* the loop keeping a delimiter that starts the buffer
LR_loop_nonempty(self) ==
    IF self.line_mode # 0
    THEN LET i == Find(self.buffer, self.delimiter)
             line == SubSeq(self.buffer, 1, i - 1)
             s1 == [self EXCEPT
                       !.buffer = Drop(self.buffer, i - 1 + Len(self.delimiter)),
                       !.iters = @ + 1]
         IN  IF i <= 1 THEN self
             ELSE LR_loop(lineReceived(s1, line))
    ELSE LET data == self.buffer
             s1 == [self EXCEPT !.buffer = <<>>]
         IN  IF data # <<>> THEN rawDataReceived(s1, data) ELSE s1

\* while self.line_mode: ... else: ...
\* A failed split (ValueError) breaks out of the loop, past the else
\* clause; the loop condition turning false runs the else clause.
LR_loop(self) ==
    IF self.line_mode # 0
    THEN LET i == Find(self.buffer, self.delimiter)
             line == SubSeq(self.buffer, 1, i - 1)
             s1 == [self EXCEPT
                       !.buffer = Drop(self.buffer, i - 1 + Len(self.delimiter)),
                       !.iters = @ + 1]
         IN  IF i = 0 THEN self
             ELSE LR_loop(lineReceived(s1, line))
    ELSE LET data == self.buffer
             s1 == [self EXCEPT !.buffer = <<>>]
         IN  IF data # <<>> THEN rawDataReceived(s1, data) ELSE s1

\* setLineMode that does not pass extra on
setLineMode_dropExtra(self, extra) ==
    dataReceived([self EXCEPT !.line_mode = 1,
                     !.calls = Append(@, Call("setLineMode", extra))], <<>>)

setLineMode(self, extra) ==
    dataReceived([self EXCEPT !.line_mode = 1,
                     !.calls = Append(@, Call("setLineMode", extra))], extra)

rawDataReceived(self, data) ==
    LET s1 == [self EXCEPT !.calls = Append(@, Call("rawDataReceived", data))]
    IN  IF ~self.handsBack THEN s1
        ELSE IF Len(data) >= self.need
             THEN setLineMode([s1 EXCEPT !.need = 0], Drop(data, self.need))
             ELSE [s1 EXCEPT !.need = @ - Len(data)]

(***************************************************************************)
(* twisted.web.distrib.ResourceSubscription                                *)
(***************************************************************************)
\* Python's None
None == 0

\* A ResourceSubscription after __init__: the class attribute waiting, and
\* pending and publisher.  A publisher is the number of the connection
\* attempt that produced it.  clients counts the tcp.Client objects
\* created, one per connection attempt; forwarded logs the requests passed
\* to publisher.request and answered those sent the reply of notConnected
\* (write and finish), in order.
ResourceSubscription ==
    [publisher |-> None, waiting |-> 0, pending |-> <<>>,
     clients |-> 0, forwarded |-> <<>>, answered |-> <<>>]

render(self, request) ==
    IF self.publisher = None
    THEN LET s1 == [self EXCEPT !.pending = Append(@, request)]
         IN  IF s1.waiting = 0
             THEN [s1 EXCEPT !.clients = @ + 1, !.waiting = 1]
             ELSE s1
    ELSE [self EXCEPT !.forwarded = Append(@, request)]

\* for request in self.pending: self.render(request), from the i-th on
RECURSIVE renderPending(_, _)
renderPending(self, i) ==
    IF i > Len(self.pending) THEN self
    ELSE renderPending(render(self, self.pending[i]), i + 1)

connected(self, publisher) ==
    renderPending([self EXCEPT !.publisher = publisher, !.waiting = 0], 1)

notConnected(self) ==
    [self EXCEPT !.answered = @ \o self.pending]

booted(self) ==
    [self EXCEPT !.waiting = 0, !.publisher = None]

(***************************************************************************)
(* The environment of a NetstringReceiver: the transport calls             *)
(* dataReceived with consecutive chunks of the byte stream.  A parse error *)
(* reaches the transport, which feeds the receiver no further.             *)
(***************************************************************************)
NSFeed ==
    /\ ~ns.raised
    /\ \E chunk \in SeqsUpTo(NSBytes, MaxFed - Len(nsFed)) :
          /\ ns' = NS_dataReceived(ns, chunk)
          /\ nsFed' = nsFed \o chunk
          /\ nsCut' = Len(nsFed)
    /\ UNCHANGED <<sent, wire, i32Vars, lrVars, spVars, rsVars>>

Init ==
    /\ ns = NetstringReceiver
    /\ nsFed = <<>>
    /\ nsCut = 0
    /\ sent = <<>>
    /\ wire = <<>>
    /\ i32 = Int32StringReceiver
    /\ i32Fed = <<>>
    /\ i32Cut = 0
    /\ lr = LineReceiver(<<"r", "n">>, {}, FALSE, 0)
    /\ lrFed = <<>>
    /\ lrCut = 0
    /\ lrOp = "none"
    /\ sp = StatefulStringProtocol(NetstringReceiver, <<>>)
    /\ spFed = <<>>
    /\ spCut = 0
    /\ rs = ResourceSubscription
    /\ rsRendered = 0
    /\ rsReported = 0
    /\ rsLive = {}

NextNS == NSFeed

SpecNS == Init /\ [][NextNS]_vars

(***************************************************************************)
(* A peer that frames one payload with sendString, and a transport that    *)
(* delivers what was written in chunks of any size.                        *)
(***************************************************************************)
RTSend ==
    /\ sent = <<>>
    /\ \E P \in SeqsUpTo(PayloadBytes, MaxPayload) :
          /\ sent' = <<P>>
          /\ wire' = wire \o NS_sendString(P)
    /\ UNCHANGED <<ns, nsFed, nsCut, i32Vars, lrVars, spVars, rsVars>>

RTDeliver ==
    /\ ~ns.raised
    /\ \E k \in 1..Len(wire) :
          /\ ns' = NS_dataReceived(ns, Take(wire, k))
          /\ nsFed' = nsFed \o Take(wire, k)
          /\ nsCut' = Len(nsFed)
          /\ wire' = Drop(wire, k)
    /\ UNCHANGED <<sent, i32Vars, lrVars, spVars, rsVars>>

NextRT == RTSend \/ RTDeliver

SpecRT == Init /\ [][NextRT]_vars

(***************************************************************************)
(* The environment of an Int32StringReceiver: the transport calls          *)
(* dataReceived with consecutive chunks, each call after the one before it *)
(* has returned.                                                           *)
(***************************************************************************)
I32Feed ==
    /\ ~i32.hung
    /\ \E chunk \in SeqsUpTo(I32Bytes, MaxFed32 - Len(i32Fed)) :
          /\ i32' = I32_dataReceived(i32, chunk)
          /\ i32Fed' = i32Fed \o chunk
          /\ i32Cut' = Len(i32Fed)
    /\ UNCHANGED <<nsVars, lrVars, spVars, rsVars>>

Next32 == I32Feed

Spec32 == Init /\ [][Next32]_vars

(***************************************************************************)
(* The environment of a stateful receiver: a class that mixes              *)
(* StatefulStringProtocol with one of the two receivers and defines some   *)
(* state handlers; the transport calls dataReceived with consecutive       *)
(* chunks.  What the transport does when told to lose the connection is    *)
(* not this module's: it may or may not deliver bytes it has already read. *)
(***************************************************************************)
\* what the methods proto_<s> of a class may be
HandlerTables == UNION {[D -> States] : D \in SUBSET Handled}

InitSP ==
    /\ \E base \in {NetstringReceiver, Int32StringReceiver},
          handlers \in HandlerTables :
          sp = StatefulStringProtocol(base, handlers)
    /\ spFed = <<>>
    /\ spCut = 0
    /\ rs = ResourceSubscription
    /\ rsRendered = 0
    /\ rsReported = 0
    /\ rsLive = {}
    /\ ns = NetstringReceiver
    /\ nsFed = <<>>
    /\ nsCut = 0
    /\ sent = <<>>
    /\ wire = <<>>
    /\ i32 = Int32StringReceiver
    /\ i32Fed = <<>>
    /\ i32Cut = 0
    /\ lr = LineReceiver(<<"r", "n">>, {}, FALSE, 0)
    /\ lrFed = <<>>
    /\ lrCut = 0
    /\ lrOp = "none"

\* the object's class derives from NetstringReceiver
IsNetstring(self) == "mode" \in DOMAIN self

SPFeedNetstring ==
    /\ IsNetstring(sp)
    /\ ~sp.raised
    /\ \E chunk \in SeqsUpTo(SPBytes, MaxFedSP - Len(spFed)) :
          /\ sp' = NS_dataReceived(sp, chunk)
          /\ spFed' = spFed \o chunk
          /\ spCut' = Len(spFed)
    /\ UNCHANGED <<nsVars, i32Vars, lrVars, rsVars>>

SPFeedInt32 ==
    /\ ~IsNetstring(sp)
    /\ \E chunk \in SeqsUpTo(SPBytes32, MaxFedSP32 - Len(spFed)) :
          /\ sp' = I32_dataReceived(sp, chunk)
          /\ spFed' = spFed \o chunk
          /\ spCut' = Len(spFed)
    /\ UNCHANGED <<nsVars, i32Vars, lrVars, rsVars>>

NextSP == SPFeedNetstring \/ SPFeedInt32

SpecSP == InitSP /\ [][NextSP]_vars

(***************************************************************************)
(* The environment of a ResourceSubscription: the site passes requests to  *)
(* render, each request once; every broker that render has set up reports  *)
(* once, by connected or by notConnected; a broker that has connected may  *)
(* lose its connection, and then calls booted.                             *)
(***************************************************************************)
\* the connection attempts that have not reported yet
InFlight == rs.clients - rsReported

RSRender ==
    /\ rsRendered < MaxRequests
    /\ rs' = render(rs, rsRendered + 1)
    /\ rsRendered' = rsRendered + 1
    /\ UNCHANGED <<rsReported, rsLive, nsVars, i32Vars, lrVars, spVars>>

RSConnected ==
    /\ InFlight > 0
    /\ rs' = connected(rs, rsReported + 1)
    /\ rsReported' = rsReported + 1
    /\ rsLive' = rsLive \cup {rsReported + 1}
    /\ UNCHANGED <<rsRendered, nsVars, i32Vars, lrVars, spVars>>

RSNotConnected ==
    /\ InFlight > 0
    /\ rs' = notConnected(rs)
    /\ rsReported' = rsReported + 1
    /\ UNCHANGED <<rsRendered, rsLive, nsVars, i32Vars, lrVars, spVars>>

RSBooted ==
    /\ \E broker \in rsLive :
          /\ rs' = booted(rs)
          /\ rsLive' = rsLive \ {broker}
    /\ UNCHANGED <<rsRendered, rsReported, nsVars, i32Vars, lrVars, spVars>>

NextRS == RSRender \/ RSConnected \/ RSNotConnected \/ RSBooted

SpecRS == Init /\ [][NextRS]_vars

(***************************************************************************)
(* The environment of a LineReceiver: a subclass with its delimiter and    *)
(* its callbacks; the transport calls dataReceived with consecutive        *)
(* chunks.  The application switches modes from inside its callbacks.      *)
(***************************************************************************)
InitLR ==
    /\ \E d \in Delimiters, on \in SUBSET RawLines :
          \/ lr = LineReceiver(d, on, FALSE, 0)
          \/ \E b \in 0..MaxBody : lr = LineReceiver(d, on, TRUE, b)
    /\ lrFed = <<>>
    /\ lrCut = 0
    /\ lrOp = "none"
    /\ ns = NetstringReceiver
    /\ nsFed = <<>>
    /\ nsCut = 0
    /\ sent = <<>>
    /\ wire = <<>>
    /\ i32 = Int32StringReceiver
    /\ i32Fed = <<>>
    /\ i32Cut = 0
    /\ sp = StatefulStringProtocol(NetstringReceiver, <<>>)
    /\ spFed = <<>>
    /\ spCut = 0
    /\ rs = ResourceSubscription
    /\ rsRendered = 0
    /\ rsReported = 0
    /\ rsLive = {}

LRFeed ==
    /\ \E chunk \in SeqsUpTo(LRBytes, MaxFedLR - Len(lrFed)) :
          /\ lr' = dataReceived([lr EXCEPT !.iters = 0], chunk)
          /\ lrFed' = lrFed \o chunk
          /\ lrCut' = Len(lrFed)
          /\ lrOp' = "dataReceived"
    /\ UNCHANGED <<nsVars, i32Vars, spVars, rsVars>>

NextLR == LRFeed

SpecLR == InitLR /\ [][NextLR]_vars

(***************************************************************************)
(* The environment of a LineReceiver whose application switches modes      *)
(* outside the callbacks as well: between two dataReceived calls of the    *)
(* transport it may call setRawMode or setLineMode(extra).                 *)
(***************************************************************************)
InitLRX ==
    /\ \E d \in {<<"n">>, <<"r", "n">>}, on \in SUBSET RawLines :
          \/ lr = LineReceiver(d, on, FALSE, 0)
          \/ \E b \in {0, 1} : lr = LineReceiver(d, on, TRUE, b)
    /\ lrFed = <<>>
    /\ lrCut = 0
    /\ lrOp = "none"
    /\ ns = NetstringReceiver
    /\ nsFed = <<>>
    /\ nsCut = 0
    /\ sent = <<>>
    /\ wire = <<>>
    /\ i32 = Int32StringReceiver
    /\ i32Fed = <<>>
    /\ i32Cut = 0
    /\ sp = StatefulStringProtocol(NetstringReceiver, <<>>)
    /\ spFed = <<>>
    /\ spCut = 0
    /\ rs = ResourceSubscription
    /\ rsRendered = 0
    /\ rsReported = 0
    /\ rsLive = {}

LRXFeed ==
    /\ \E chunk \in SeqsUpTo(LRBytes, MaxFedLRX - Len(lrFed)) :
          /\ lr' = dataReceived([lr EXCEPT !.iters = 0], chunk)
          /\ lrFed' = lrFed \o chunk
          /\ lrCut' = Len(lrFed)
          /\ lrOp' = "dataReceived"
    /\ UNCHANGED <<nsVars, i32Vars, spVars, rsVars>>

LRXSetRawMode ==
    /\ Len(lr.calls) < MaxCallsLRX
    /\ lr' = App_setRawMode([lr EXCEPT !.iters = 0])
    /\ lrCut' = Len(lrFed)
    /\ lrOp' = "setRawMode"
    /\ UNCHANGED <<lrFed, nsVars, i32Vars, spVars, rsVars>>

LRXSetLineMode ==
    /\ Len(lr.calls) < MaxCallsLRX
    /\ \E extra \in SeqsUpTo(LRBytes, MaxFedLRX - Len(lrFed)) :
          /\ lr' = setLineMode([lr EXCEPT !.iters = 0], extra)
          /\ lrFed' = lrFed \o extra
          /\ lrCut' = Len(lrFed)
          /\ lrOp' = "setLineMode"
    /\ UNCHANGED <<nsVars, i32Vars, spVars, rsVars>>

NextLRX == LRXFeed \/ LRXSetRawMode \/ LRXSetLineMode

SpecLRX == InitLRX /\ [][NextLRX]_vars

(***************************************************************************)
(* Properties of NetstringReceiver                                         *)
(***************************************************************************)
\* the bytes of the latest dataReceived call, in an action formula
NSChunk == Drop(nsFed', Len(nsFed))

\* what a caller can observe of a NetstringReceiver
NSObservable(r) == <<r.mode, r.length, r.buffer, r.data, r.frames, r.raised>>

\* a fresh receiver fed the whole stream in one dataReceived call
NSOneCall == NS_dataReceived(NetstringReceiver, nsFed)

\* C1: chunk-boundary invariance.  However the stream fed so far was cut
\* into dataReceived calls, the arguments of stringReceived, in order, and
\* the first NetstringParseError (whether one was raised, and at which byte
\* of the stream) are those of a fresh receiver fed the stream in one call.
C1_ChunkInvariance ==
    /\ ns.frames = NSOneCall.frames
    /\ ns.raised = NSOneCall.raised
    /\ ns.raised => Len(ns.data) = Len(NSOneCall.data)

\* a frame was delivered although its length digits came in two chunks
C1_Witness ==
    /\ nsCut = 1
    /\ Len(nsFed) >= 5
    /\ nsFed[1] \in Digits /\ nsFed[2] \in Digits /\ nsFed[3] = ":"
    /\ ns.frames = <<SubSeq(nsFed, 4, 4)>>
    /\ ns.mode = LENGTH
    /\ ~ns.raised

\* C4: round trip.  Once all the bytes sendString(P) wrote have been
\* delivered, in whatever chunks, exactly one frame, P, was delivered, no
\* error was raised and the receiver is as constructed: mode LENGTH,
\* length 0, no unconsumed byte.
C4_RoundTrip ==
    (sent # <<>> /\ wire = <<>>) =>
        /\ ns.frames = sent
        /\ ~ns.raised
        /\ ns.mode = LENGTH
        /\ ns.length = 0
        /\ ns.data = <<>>

\* a ten-byte payload came back, its two length digits in different chunks
C4_Witness ==
    /\ sent # <<>> /\ wire = <<>>
    /\ Len(sent[1]) = 10
    /\ nsCut = 1
    /\ ns.frames = sent

\* the empty payload came back
C4_WitnessEmpty ==
    /\ sent = << <<>> >> /\ wire = <<>>
    /\ ns.frames = << <<>> >>

\* C7: malformed length prefix.  A call made in LENGTH mode whose chunk is
\* digits only returns normally, in LENGTH mode, with no frame delivered; a
\* call whose chunk has, after its leading digits (none, or some), a byte
\* that is neither a digit nor ':' raises NetstringParseError at that byte,
\* with no frame delivered.
C7_MalformedLength ==
    [][(ns.mode = LENGTH /\ ~ns.raised /\ NSChunk # <<>>) =>
          LET d == DigitRun(NSChunk)
          IN  /\ d = Len(NSChunk) =>
                    /\ ~ns'.raised
                    /\ ns'.mode = LENGTH
                    /\ ns'.data = <<>>
                    /\ ns'.frames = ns.frames
              /\ (d < Len(NSChunk) /\ NSChunk[d + 1] # ":") =>
                    /\ ns'.raised
                    /\ ns'.mode = LENGTH
                    /\ ns'.data = Drop(NSChunk, d)
                    /\ ns'.frames = ns.frames]_vars

\* the offending byte came in a later chunk than the digits before it
C7_Witness ==
    /\ ns.raised
    /\ ns.frames = <<>>
    /\ ns.mode = LENGTH
    /\ ns.length > 0
    /\ nsCut >= 1
    /\ nsFed[nsCut] \in Digits
    /\ ns.data = Drop(nsFed, nsCut)
    /\ Head(ns.data) \notin Digits \cup {":"}

\* the offending byte came in the chunk of the digits before it ('1a')
C7_WitnessSameChunk ==
    /\ ns.raised
    /\ nsCut = 0
    /\ nsFed = <<"1", "a">>
    /\ ns.data = <<"a">>

\* the receiver after the terminator of a frame: LENGTH mode, length 0
NSAfterComma(r, rest) ==
    NS_dataReceived([r EXCEPT !.mode = LENGTH, !.length = 0], rest)

\* C8: missing terminator.  When the byte after the last payload byte of a
\* frame is not ',', dataReceived raises NetstringParseError there; when it
\* is ',', that byte alone is consumed and decoding goes on as from LENGTH
\* mode with length 0.  The byte may open a chunk (the call starts in COMMA
\* mode) or follow the end of the payload in one chunk (the call starts in
\* DATA mode).
C8_MissingTerminator ==
    [][/\ (ns.mode = COMMA /\ ~ns.raised /\ NSChunk # <<>>) =>
            IF Head(NSChunk) # ","
            THEN /\ ns'.raised
                 /\ ns'.data = NSChunk
                 /\ ns'.frames = ns.frames
            ELSE /\ NSObservable(ns') = NSObservable(NSAfterComma(ns, Tail(NSChunk)))
                 /\ Len(NSChunk) = 1 =>
                        /\ ns'.mode = LENGTH /\ ns'.length = 0
                        /\ ns'.data = <<>> /\ ~ns'.raised
       /\ (ns.mode = DATA /\ ~ns.raised /\ Len(NSChunk) > ns.length) =>
            LET frame == ns.buffer \o Take(NSChunk, ns.length)
                got == [ns EXCEPT !.frames = Append(@, frame),
                                  !.buffer = frame]
            IN  IF NSChunk[ns.length + 1] # ","
                THEN /\ ns'.raised
                     /\ ns'.data = Drop(NSChunk, ns.length)
                     /\ ns'.frames = got.frames
                ELSE NSObservable(ns') =
                        NSObservable(NSAfterComma(got, Drop(NSChunk, ns.length + 1)))
      ]_vars

\* '1:a' then 'a': the byte after the payload, in a later chunk, is no ','
C8_Witness ==
    /\ nsFed = <<"1", ":", "a", "a">>
    /\ nsCut = 3
    /\ ns.raised
    /\ ns.frames = << <<"a">> >>
    /\ ns.data = <<"a">>

\* '1:a' then ',': the terminator alone is consumed
C8_WitnessComma ==
    /\ nsFed = <<"1", ":", "a", ",">>
    /\ nsCut = 3
    /\ ~ns.raised
    /\ ns.mode = LENGTH /\ ns.length = 0 /\ ns.data = <<>>
    /\ ns.frames = << <<"a">> >>

(***************************************************************************)
(* Properties of Int32StringReceiver                                       *)
(***************************************************************************)
\* the bytes of the latest dataReceived call, in an action formula
I32Chunk == Drop(i32Fed', Len(i32Fed))

\* recvd at the start of the loop of the latest call, in an action formula
I32Buffered == i32.recvd \o I32Chunk

\* a fresh receiver fed the whole stream in one dataReceived call
I32OneCall == I32_dataReceived(Int32StringReceiver, i32Fed)

\* the first four bytes of b as an unsigned big-endian integer, for a
\* header with the top bit clear (less than 2^31)
BigEndian(b) == b[1] * 16777216 + b[2] * 65536 + b[3] * 256 + b[4]

\* the four header bytes read as an unsigned big-endian integer h satisfy
\* n < 4 + h.  With the top bit set h is at least 2^31, more than any
\* buffer of the model holds.
FewerThanDeclared(n, b) ==
    \/ b[1] >= 128
    \/ n < 4 + BigEndian(b)

\* C2: chunk-boundary invariance.  However the stream fed so far was cut
\* into dataReceived calls, the arguments of stringReceived, in order, and
\* the residual recvd are those of a fresh receiver fed the stream in one
\* call.
C2_ChunkInvariance ==
    /\ i32.frames = I32OneCall.frames
    /\ i32.recvd = I32OneCall.recvd

\* C5: the declared length is unsigned.  In a call that starts with a whole
\* header buffered, of unsigned value h: with fewer than 4+h bytes buffered
\* no frame is delivered and no byte consumed, and the call returns;
\* otherwise the first frame delivered is the h bytes after the header and
\* 4+h bytes are consumed for it.
C5_UnsignedLength ==
    [][(~i32.hung /\ Len(I32Buffered) >= 4) =>
          IF FewerThanDeclared(Len(I32Buffered), I32Buffered)
          THEN /\ i32'.frames = i32.frames
               /\ i32'.recvd = I32Buffered
               /\ ~i32'.hung
          ELSE LET h == BigEndian(I32Buffered)
                   rest == I32_loop([i32 EXCEPT
                              !.recvd = Drop(I32Buffered, 4 + h),
                              !.frames = Append(@, SubSeq(I32Buffered, 5, 4 + h)),
                              !.iters = 1])
               IN  i32' = rest]_vars

\* C10: incomplete-frame buffering, for a header that declares a length
\* N >= 0 (top bit clear).  With fewer than 4+N bytes buffered the call
\* delivers nothing and consumes nothing, the header staying in recvd; with
\* 4+N or more it delivers the N bytes after the header as one frame and
\* removes 4+N bytes, and goes on with what follows them.
C10_IncompleteFrame ==
    [][(~i32.hung /\ Len(I32Buffered) >= 4 /\ I32Buffered[1] < 128) =>
          LET N == BigEndian(I32Buffered)
              frame == SubSeq(I32Buffered, 5, 4 + N)
              after == Drop(I32Buffered, 4 + N)
          IN  IF Len(I32Buffered) < 4 + N
              THEN /\ i32'.frames = i32.frames
                   /\ i32'.recvd = I32Buffered
              ELSE /\ Len(i32'.frames) > Len(i32.frames)
                   /\ SubSeq(i32'.frames, 1, Len(i32.frames) + 1)
                         = Append(i32.frames, frame)
                   /\ Len(frame) = N
                   /\ Len(after) < 4 =>
                         /\ i32'.frames = Append(i32.frames, frame)
                         /\ i32'.recvd = after
                   /\ i32' = I32_loop([i32 EXCEPT !.recvd = after,
                                 !.frames = Append(@, frame), !.iters = 1])
      ]_vars

\* header 1 and no payload byte, then the payload byte: one 1-byte frame
C10_Witness ==
    /\ Len(i32Fed) = 5
    /\ SubSeq(i32Fed, 1, 4) = <<0, 0, 0, 1>>
    /\ i32Cut = 4
    /\ i32.frames = <<SubSeq(i32Fed, 5, 5)>>
    /\ i32.recvd = <<>>

\* header 1 alone: nothing delivered, the header stays in recvd
C10_WitnessBuffered ==
    /\ i32Fed = <<0, 0, 0, 1>>
    /\ i32.frames = <<>>
    /\ i32.recvd = <<0, 0, 0, 1>>

\* header 0: one empty frame
C10_WitnessEmpty ==
    /\ i32Fed = <<0, 0, 0, 0>>
    /\ i32.frames = << <<>> >>
    /\ i32.recvd = <<>>

(***************************************************************************)
(* Properties of LineReceiver                                              *)
(***************************************************************************)
\* the bytes of the latest dataReceived call, in an action formula
LRChunk == Drop(lrFed', Len(lrFed))

\* the calls logged during the latest dataReceived call, in an action formula
LRNew == Drop(lr'.calls, Len(lr.calls))

\* a receiver of the same subclass, fresh, fed the whole stream in one call
LROneCall ==
    dataReceived(
        LineReceiver(lr.delimiter, lr.rawOn, lr.handsBack, lr.bodyLen), lrFed)

\* some callback has switched the mode
LRSwitched ==
    \E i \in DOMAIN lr.calls : lr.calls[i].op \in {"setRawMode", "setLineMode"}

\* C3: chunk-boundary invariance in line mode.  As long as no callback has
\* switched the mode, however the stream fed so far was cut into
\* dataReceived calls, the lines passed to lineReceived, in order, and the
\* buffer are those of a fresh receiver fed the stream in one call.
C3_ChunkInvariance ==
    ~LRSwitched =>
        /\ lr.calls = LROneCall.calls
        /\ lr.buffer = LROneCall.buffer

\* 'aar' then 'n' with the delimiter 'rn': the one line 'aa', though the
\* cut falls inside the delimiter
C3_Witness ==
    /\ lr.delimiter = <<"r", "n">>
    /\ lrFed = <<"a", "a", "r", "n">>
    /\ lrCut = 3
    /\ lr.calls = <<Call("lineReceived", <<"a", "a">>)>>
    /\ lr.buffer = <<>>

\* 'a' then 'an' with the delimiter 'n': the one line 'aa'
C3_WitnessJoined ==
    /\ lr.delimiter = <<"n">>
    /\ lrFed = <<"a", "a", "n">>
    /\ lrCut = 1
    /\ lr.calls = <<Call("lineReceived", <<"a", "a">>)>>
    /\ lr.buffer = <<>>

\* the bytes the lines among the calls cs took from the buffer
RECURSIVE SplitOff(_, _)
SplitOff(cs, dl) ==
    IF cs = <<>> THEN 0
    ELSE (IF Head(cs).op = "lineReceived" THEN Len(Head(cs).arg) + dl ELSE 0)
            + SplitOff(Tail(cs), dl)

\* the latest setLineMode among the first i calls of cs, 0 when there is none
LastSetLineMode(cs, i) ==
    LET at == {k \in 1..i : cs[k].op = "setLineMode"}
    IN  IF at = {} THEN 0 ELSE CHOOSE k \in at : \A j \in at : j <= k

\* the bytes left in the buffer after the delimiter of the line passed by
\* call i-1 of the latest dataReceived call, when call i is the setRawMode
\* that lineReceived made: the bytes that entered the buffer (at the start
\* of the call, or as the extra of the latest setLineMode) without those
\* split off as lines since
RemainingAfter(i) ==
    LET k == LastSetLineMode(LRNew, i)
        entered == IF k = 0 THEN lr.buffer \o LRChunk ELSE LRNew[k].arg
    IN  Drop(entered, SplitOff(SubSeq(LRNew, k + 1, i), Len(lr.delimiter)))

\* call i of the latest dataReceived call is a setRawMode made by lineReceived
SetRawByLine(i) ==
    /\ i > 1
    /\ LRNew[i].op = "setRawMode"
    /\ LRNew[i - 1].op = "lineReceived"

\* C9 as claimed: after lineReceived has called setRawMode, the same
\* dataReceived call invokes no further lineReceived, passes the bytes
\* remaining after that line's delimiter to rawDataReceived in exactly one
\* call (none when no byte remains), and returns with the buffer empty.
C9_RawFlushAsClaimed ==
    [][\A i \in DOMAIN LRNew : SetRawByLine(i) =>
          LET later == Drop(LRNew, i)
              raws == SelectSeq(later, LAMBDA c : c.op = "rawDataReceived")
          IN  /\ \A j \in DOMAIN later : later[j].op # "lineReceived"
              /\ raws = IF RemainingAfter(i) = <<>> THEN <<>>
                        ELSE <<Call("rawDataReceived", RemainingAfter(i))>>
              /\ lr'.buffer = <<>>]_vars

\* C9: raw-mode mid-batch flush.  After lineReceived has called setRawMode,
\* the next callback of the same dataReceived call is rawDataReceived, with
\* all the bytes remaining after that line's delimiter; when none remain no
\* callback follows.  Unless that rawDataReceived hands bytes back with
\* setLineMode, it is the last callback of the call, and the call returns
\* with the buffer empty.
C9_RawFlush ==
    [][\A i \in DOMAIN LRNew : SetRawByLine(i) =>
          LET later == Drop(LRNew, i)
          IN  IF RemainingAfter(i) = <<>>
              THEN later = <<>> /\ lr'.buffer = <<>>
              ELSE /\ later # <<>>
                   /\ later[1] = Call("rawDataReceived", RemainingAfter(i))
                   /\ Len(later) > 1 => later[2].op = "setLineMode"
                   /\ Len(later) = 1 => lr'.buffer = <<>>]_vars

\* 'anaa' with the delimiter 'n' in one call: the line 'a' switches to raw
\* mode and 'aa' reaches rawDataReceived in that call
C9_Witness ==
    /\ lr.delimiter = <<"n">>
    /\ lrFed = <<"a", "n", "a", "a">>
    /\ lrCut = 0
    /\ lr.calls = <<Call("lineReceived", <<"a">>), Call("setRawMode", <<>>),
                    Call("rawDataReceived", <<"a", "a">>)>>
    /\ lr.buffer = <<>>
    /\ lr.line_mode = 0

(***************************************************************************)
(* Termination of dataReceived                                             *)
(***************************************************************************)
\* the latest NetstringReceiver.dataReceived call made at most two loop
\* iterations per byte of its chunk (a payload of length 0 is delivered by
\* an iteration that consumes nothing, and the next one consumes a byte or
\* raises)
NSRunsToCompletion == ns.iters <= 2 * (Len(nsFed) - nsCut)

\* the latest LineReceiver.dataReceived call split off at most one line per
\* byte received so far
LRRunsToCompletion == lr.iters <= Len(lrFed)

\* the latest Int32StringReceiver.dataReceived call returned, after at most
\* one loop iteration per byte received so far
I32RunsToCompletion == ~i32.hung /\ i32.iters <= Len(i32Fed)

\* C6: every feed call runs to completion.  For each of the three
\* receivers, whatever was fed before and whatever the chunk, dataReceived
\* returns after a number of loop iterations bounded by the bytes it was
\* given.
C6_RunsToCompletion ==
    /\ NSRunsToCompletion
    /\ LRRunsToCompletion
    /\ I32RunsToCompletion

(***************************************************************************)
(* Claims about StatefulStringProtocol, checked under SpecSP.              *)
(***************************************************************************)
\* the state a dispatcher that starts in state s is in after the frames,
\* each frame moving it to what the handler of its state returns and a
\* state without a handler staying as it is
RECURSIVE StateAfter(_, _, _)
StateAfter(handlers, s, frames) ==
    IF frames = <<>> THEN s
    ELSE StateAfter(handlers,
                    IF s \in DOMAIN handlers THEN handlers[s] ELSE s,
                    Tail(frames))

\* the handler calls such a dispatcher makes: the state whose handler is
\* called and the frame it is called with, in order
RECURSIVE Invocations(_, _, _)
Invocations(handlers, s, frames) ==
    IF frames = <<>> THEN <<>>
    ELSE IF s \in DOMAIN handlers
         THEN <<<<s, Head(frames)>>>>
                  \o Invocations(handlers, handlers[s], Tail(frames))
         ELSE Invocations(handlers, s, Tail(frames))

\* the handler calls the object has made
ProtoCalls ==
    LET protos == SelectSeq(sp.trace, LAMBDA e : e.op = "proto")
    IN  [i \in 1..Len(protos) |-> <<protos[i].state, protos[i].arg>>]

\* the class of the example: proto_init returns 'a', proto_a returns 'done'
InitADone == [s \in {"init", "a"} |-> IF s = "init" THEN "a" ELSE "done"]

\* C11: state-driven dispatch.  The object starts in state 'init'; every
\* frame delivered while the current state s has a handler proto_<s> calls
\* exactly that handler, once, with the frame, and the state becomes what
\* the handler returned; a frame delivered in a state without handler calls
\* none.  With proto_init returning 'a' and proto_a returning 'done', two
\* frames drive the state through init, a, done.
C11_Dispatch ==
    /\ sp.state = StateAfter(sp.handlers, "init", sp.frames)
    /\ ProtoCalls = Invocations(sp.handlers, "init", sp.frames)
    /\ (sp.handlers = InitADone /\ Len(sp.frames) = 2)
           => /\ sp.state = "done"
              /\ ProtoCalls = <<<<"init", sp.frames[1]>>, <<"a", sp.frames[2]>>>>

\* the example's class has been fed two frames, the second not empty
C11_Witness ==
    /\ sp.handlers = InitADone
    /\ Len(sp.frames) = 2
    /\ sp.frames[2] # <<>>
    /\ sp.state = "done"

\* C12: transport.loseConnection is called exactly when a state handler
\* has just returned 'done': every such return is followed at once by one
\* call, made with the state already set to 'done', and every call follows
\* at once the call of a handler that returns 'done'.  A frame whose
\* handler returned another state, or that found no handler, causes none.
C12_LoseOnDone ==
    \A i \in 1..Len(sp.trace) :
        /\ sp.trace[i].op = "loseConnection"
              => /\ sp.trace[i].state = "done"
                 /\ i > 1
                 /\ sp.trace[i - 1].op = "proto"
                 /\ sp.handlers[sp.trace[i - 1].state] = "done"
        /\ (sp.trace[i].op = "proto"
               /\ sp.handlers[sp.trace[i].state] = "done")
              => /\ i < Len(sp.trace)
                 /\ sp.trace[i + 1].op = "loseConnection"
        /\ (sp.trace[i].op \in {"proto", "print"} /\ i < Len(sp.trace)
               /\ ~(sp.trace[i].op = "proto"
                       /\ sp.handlers[sp.trace[i].state] = "done"))
              => sp.trace[i + 1].op = "stringReceived"

\* a handler returned 'a' for one frame and a handler returned 'done' for
\* the next, and the connection was lost
C12_Witness ==
    \E i, j \in 1..Len(sp.trace) :
        /\ i < j
        /\ sp.trace[i].op = "proto"
        /\ sp.handlers[sp.trace[i].state] = "a"
        /\ sp.trace[j].op = "loseConnection"

\* C13: no decoding after 'done'.  Once transport.loseConnection has been
\* called, no frame is passed to stringReceived any more, neither from the
\* rest of the same chunk nor from a later dataReceived call.
C13_NoDecodingAfterDone ==
    \A i, j \in 1..Len(sp.trace) :
        (i < j /\ sp.trace[i].op = "loseConnection")
            => sp.trace[j].op # "stringReceived"

\* the receiver of sp's base class, fed a stream in one call
SPPlainFed(stream) ==
    IF IsNetstring(sp) THEN NS_dataReceived(NetstringReceiver, stream)
    ELSE I32_dataReceived(Int32StringReceiver, stream)

\* the receiver of sp's base class, fed what sp was fed
SPPlain == SPPlainFed(spFed)

\* the attributes of the decoder under the mixin
SPDecoder(r) ==
    IF IsNetstring(r) THEN <<r.mode, r.length, r.buffer, r.frames, r.raised>>
    ELSE <<r.recvd, r.frames, r.hung>>

\* C14: a frame delivered while the current state has no handler calls no
\* handler and not loseConnection, only print, and leaves the state as it
\* was; no exception reaches the decoder, whose mode, length, buffers and
\* delivered frames are those of a plain receiver that handled every
\* frame, so later frames are decoded and delivered as well.
C14_UnknownState ==
    /\ \A i \in 1..Len(sp.trace) :
           (sp.trace[i].op = "stringReceived"
              /\ sp.trace[i].state \notin DOMAIN sp.handlers)
             => /\ i < Len(sp.trace)
                /\ sp.trace[i + 1].op = "print"
                /\ IF i + 1 = Len(sp.trace)
                   THEN sp.state = sp.trace[i].state
                   ELSE /\ sp.trace[i + 2].op = "stringReceived"
                        /\ sp.trace[i + 2].state = sp.trace[i].state
    /\ SPDecoder(sp) = SPDecoder(SPPlain)
    /\ IsNetstring(sp) /\ ~sp.raised => sp.data = <<>>

\* a frame found no handler, and so did a later frame, delivered by a later
\* dataReceived call
C14_Witness ==
    /\ Len(sp.trace) >= 4
    /\ sp.trace[Len(sp.trace)].op = "print"
    /\ sp.trace[Len(sp.trace) - 2].op = "print"
    /\ spCut > 0
    /\ Len(SPPlain.frames) = Len(sp.frames)
    /\ Len(SPPlainFed(Take(spFed, spCut)).frames) < Len(sp.frames)

(***************************************************************************)
(* Claims about the mode switches of LineReceiver.                         *)
(***************************************************************************)
\* the complete lines of s, and what follows the last of them
RECURSIVE LinesOf(_, _)
LinesOf(s, d) ==
    LET i == Find(s, d)
    IN  IF i = 0 THEN <<>>
        ELSE <<SubSeq(s, 1, i - 1)>> \o LinesOf(Drop(s, i - 1 + Len(d)), d)

RECURSIVE TailOf(_, _)
TailOf(s, d) ==
    LET i == Find(s, d)
    IN  IF i = 0 THEN s ELSE TailOf(Drop(s, i - 1 + Len(d)), d)

\* the lines ls as calls of lineReceived
AsLineCalls(ls) == [j \in 1..Len(ls) |-> Call("lineReceived", ls[j])]

\* call k of the latest dataReceived call is a setLineMode made by
\* rawDataReceived
SetLineByRaw(k) ==
    /\ k > 1
    /\ LRNew[k].op = "setLineMode"
    /\ LRNew[k - 1].op = "rawDataReceived"

\* the first setRawMode among the calls cs, Len(cs) + 1 when there is none
FirstSetRawMode(cs) ==
    LET at == {j \in DOMAIN cs : cs[j].op = "setRawMode"}
    IN  IF at = {} THEN Len(cs) + 1 ELSE CHOOSE j \in at : \A i \in at : j <= i

\* the latest mode switch logged in cs is a setLineMode
LastSwitchSetLineMode(cs) ==
    \E k \in DOMAIN cs :
        /\ cs[k].op = "setLineMode"
        /\ \A j \in DOMAIN cs : j > k => cs[j].op # "setRawMode"

\* C15 as claimed: a setLineMode(extra) called from rawDataReceived passes
\* every complete line of extra to lineReceived, in order, before it
\* returns, and leaves the undelimited tail of extra in the buffer; bytes
\* fed after a setLineMode go to lineReceived, not to rawDataReceived.
C15_SetLineModeAsClaimed ==
    [][/\ \A k \in DOMAIN LRNew : SetLineByRaw(k) =>
             /\ SelectSeq(Drop(LRNew, k),
                          LAMBDA c : c.op \in {"lineReceived", "rawDataReceived"})
                    = AsLineCalls(LinesOf(LRNew[k].arg, lr.delimiter))
             /\ lr'.buffer = TailOf(LRNew[k].arg, lr.delimiter)
       /\ (\E k \in DOMAIN lr.calls : lr.calls[k].op = "setLineMode")
             => \A j \in DOMAIN LRNew : LRNew[j].op # "rawDataReceived"]_vars

\* C15: setLineMode(extra) called from rawDataReceived sets line mode and
\* passes the complete lines of extra to lineReceived, in order, before it
\* returns, up to and including the first line on which lineReceived calls
\* setRawMode again.  When no line does, every complete line is passed,
\* the undelimited tail of extra is the buffer and the mode is line mode
\* when setLineMode returns.  While the latest switch is a setLineMode,
\* the bytes fed go to lineReceived: rawDataReceived is called only after
\* a lineReceived of the same call has called setRawMode.
C15_SetLineMode ==
    [][/\ \A k \in DOMAIN LRNew : SetLineByRaw(k) =>
             LET later == Drop(LRNew, k)
                 n == FirstSetRawMode(later)
                 lines == LinesOf(LRNew[k].arg, lr.delimiter)
             IN  /\ n - 1 <= Len(lines)
                 /\ SubSeq(later, 1, n - 1) = AsLineCalls(SubSeq(lines, 1, n - 1))
                 /\ n <= Len(later) => n > 1 /\ lines[n - 1] \in lr.rawOn
                 /\ n > Len(later) =>
                       /\ n - 1 = Len(lines)
                       /\ lr'.buffer = TailOf(LRNew[k].arg, lr.delimiter)
                       /\ lr'.line_mode = 1
       /\ LastSwitchSetLineMode(lr.calls) =>
             /\ lr.line_mode = 1
             /\ \A j \in DOMAIN LRNew : LRNew[j].op = "rawDataReceived" =>
                    \E i \in 1..(j - 1) : LRNew[i].op = "setRawMode"]_vars

\* rawDataReceived has handed back an extra that holds a complete line and
\* an undelimited tail: the line was passed on, the tail is the buffer
C15_Witness ==
    /\ Len(lr.calls) >= 3
    /\ LET k == Len(lr.calls) - 1
       IN  /\ lr.calls[k - 1].op = "rawDataReceived"
           /\ lr.calls[k].op = "setLineMode"
           /\ Len(LinesOf(lr.calls[k].arg, lr.delimiter)) = 1
           /\ TailOf(lr.calls[k].arg, lr.delimiter) # <<>>
           /\ lr.calls[k + 1].op = "lineReceived"
           /\ lr.buffer = TailOf(lr.calls[k].arg, lr.delimiter)
    /\ lr.line_mode = 1

\* a later dataReceived call has completed the tail that a setLineMode of
\* an earlier call left in the buffer, and the line went to lineReceived
C15_WitnessAfterwards ==
    /\ Len(lr.calls) >= 3
    /\ LET k == Len(lr.calls) - 1
       IN  /\ lr.calls[k - 1].op = "rawDataReceived"
           /\ lr.calls[k].op = "setLineMode"
           /\ LinesOf(lr.calls[k].arg, lr.delimiter) = <<>>
           /\ lr.calls[k].arg # <<>>
           /\ lr.calls[k + 1].op = "lineReceived"
           /\ Len(lr.calls[k + 1].arg) > Len(lr.calls[k].arg)
    /\ lrCut > 0

\* C16: setRawMode changes only the mode flag: it calls neither
\* lineReceived nor rawDataReceived and leaves the buffer as it is.  The
\* dataReceived call that follows passes what was buffered, an undelimited
\* partial line, and its own bytes to rawDataReceived, in this order and in
\* one call (no call when there is no byte at all).
C16_SetRawMode ==
    [][/\ lrOp' = "setRawMode" =>
             /\ LRNew = <<Call("setRawMode", <<>>)>>
             /\ lr'.buffer = lr.buffer
             /\ lr'.line_mode = 0
             /\ lr'.delimiter = lr.delimiter
       /\ (lrOp = "setRawMode" /\ lrOp' = "dataReceived") =>
             IF lr.buffer \o LRChunk = <<>> THEN LRNew = <<>>
             ELSE LRNew[1] = Call("rawDataReceived", lr.buffer \o LRChunk)]_vars

\* setRawMode was called with a partial line buffered, and the next
\* dataReceived call passed it on in front of its own bytes
C16_Witness ==
    /\ lrOp = "dataReceived"
    /\ Len(lr.calls) = 2
    /\ lr.calls[1].op = "setRawMode"
    /\ lr.calls[2].op = "rawDataReceived"
    /\ lrCut > 0
    /\ lrCut < Len(lrFed)
    /\ lr.calls[2].arg = lrFed

\* C18: when an outermost dataReceived or setLineMode call has returned,
\* the buffer holds no occurrence of the delimiter if the receiver is in
\* line mode and is empty if it is in raw mode; a delimiter at the start
\* of the buffer is passed on as a line of length 0, not kept.
C18_BufferInvariant ==
    [][lrOp' \in {"dataReceived", "setLineMode"} =>
          /\ IF lr'.line_mode # 0
             THEN Find(lr'.buffer, lr'.delimiter) = 0
             ELSE lr'.buffer = <<>>
          /\ (Find(lr.buffer \o LRChunk, lr.delimiter) = 1
                /\ (lr.line_mode # 0 \/ lrOp' = "setLineMode"))
               => \E j \in DOMAIN LRNew :
                     /\ LRNew[j] = Call("lineReceived", <<>>)
                     /\ \A i \in 1..(j - 1) : LRNew[i].op = "setLineMode"]_vars

\* the application has called setRawMode and setLineMode outside the
\* callbacks, an empty line has been passed on, and a partial line is
\* buffered in line mode
C18_Witness ==
    /\ lrOp \in {"dataReceived", "setLineMode"}
    /\ \E i, j, k \in DOMAIN lr.calls :
          /\ i < j
          /\ lr.calls[i].op = "setRawMode"
          /\ lr.calls[j].op = "setLineMode"
          /\ lr.calls[k] = Call("lineReceived", <<>>)
    /\ lr.line_mode = 1
    /\ lr.buffer # <<>>
    /\ lr.rawOn = {}
    /\ ~lr.handsBack

\* a dataReceived call has returned in raw mode, after lineReceived
\* switched the mode and the rest of the buffer was flushed
C18_WitnessRaw ==
    /\ lrOp = "dataReceived"
    /\ lr.line_mode = 0
    /\ lr.buffer = <<>>
    /\ Len(lr.calls) = 3
    /\ lr.calls[1].op = "lineReceived"
    /\ lr.calls[2].op = "setRawMode"
    /\ lr.calls[3].op = "rawDataReceived"

(***************************************************************************)
(* Frame completeness of NetstringReceiver, checked under SpecNS.          *)
(***************************************************************************)
\* the number of digits s starts with
RECURSIVE LeadingDigits(_)
LeadingDigits(s) ==
    IF s = <<>> \/ Head(s) \notin Digits THEN 0
    ELSE 1 + LeadingDigits(Tail(s))

\* the decimal value of the digits ds, 0 for no digit
RECURSIVE Decimal(_)
Decimal(ds) ==
    IF ds = <<>> THEN 0
    ELSE 10 * Decimal(SubSeq(ds, 1, Len(ds) - 1)) + DigitVal(ds[Len(ds)])

\* The stream s read as netstrings from its first byte: the payloads that
\* are complete, in order; of the frame in progress the value of the length
\* digits received so far (declared) and the payload bytes received so far
\* (got), with colon telling that its ':' has been received.  A payload is
\* the L bytes after the ':' when the digits before the ':' have the value
\* L; a payload of no byte is complete when a byte follows the ':'.
RECURSIVE NetstringsOf(_)
NetstringsOf(s) ==
    LET k == LeadingDigits(s)
        L == Decimal(SubSeq(s, 1, k))
        rest == Drop(s, k + 1)
        after == Drop(rest, L)
        next == NetstringsOf(Tail(after))
    IN  IF k = Len(s) \/ s[k + 1] # ":"
        THEN [frames |-> <<>>, declared |-> L, got |-> <<>>, colon |-> FALSE]
        ELSE IF Len(rest) < L \/ rest = <<>>
        THEN [frames |-> <<>>, declared |-> L, got |-> rest, colon |-> TRUE]
        ELSE IF after = <<>> \/ after[1] # ","
        THEN [frames |-> <<Take(rest, L)>>, declared |-> 0, got |-> <<>>,
              colon |-> FALSE]
        ELSE [next EXCEPT !.frames = <<Take(rest, L)>> \o @]

\* C17: frame completeness.  Over any sequence of dataReceived calls the
\* arguments of stringReceived are the complete payloads of the stream: each
\* is exactly the L bytes that follow a ':', L being the decimal value of
\* all the length digits received since the previous frame, in however many
\* chunks they came.  The remaining-length counter is never negative: it is
\* that value while the digits arrive, the number of payload bytes still to
\* come after the ':', and 0 once stringReceived has been called.
C17_FrameCompleteness ==
    LET r == NetstringsOf(nsFed)
    IN  /\ ns.frames = r.frames
        /\ ns.length >= 0
        /\ ~ns.raised =>
              /\ ns.mode = COMMA => ns.length = 0
              /\ ns.mode = DATA =>
                    /\ r.colon
                    /\ ns.length = r.declared - Len(r.got)
                    /\ ns.buffer = r.got
              /\ ns.mode = LENGTH => ~r.colon /\ ns.length = r.declared

\* '0' then '1:a,': the digits of two chunks make the length 1, and the one
\* byte after the ':' is the frame
C17_Witness ==
    /\ nsFed = <<"0", "1", ":", "a", ",">>
    /\ nsCut = 1
    /\ ns.frames = <<<<"a">>>>
    /\ ns.length = 0

\* '1' then '1:aa': the digits of two chunks make the length 11, two bytes
\* of the payload have come and nothing is delivered
C17_WitnessPending ==
    /\ nsFed = <<"1", "1", ":", "a", "a">>
    /\ nsCut = 1
    /\ ns.frames = <<>>
    /\ ns.mode = DATA
    /\ ns.length = 9

(***************************************************************************)
(* Claims about ResourceSubscription, checked under SpecRS.                *)
(***************************************************************************)
\* how often x occurs in the sequence s
Count(s, x) == Cardinality({i \in DOMAIN s : s[i] = x})

\* how often request r was passed to publisher.request or sent the reply of
\* notConnected
Handlings(r) == Count(rs.forwarded, r) + Count(rs.answered, r)

\* C19: at-most-once handling.  Over any sequence of render, connected,
\* notConnected and booted, a request passed once to render is passed to
\* publisher.request or answered with the connection-failure reply at most
\* once in total.
C19_AtMostOnce ==
    \A r \in 1..rsRendered : Handlings(r) <= 1

\* C20: no stranded request.  waiting = 1 only while a connection attempt
\* has not reported yet, and every request passed to render that has been
\* neither forwarded nor answered has such an attempt in flight: a render
\* after a failed attempt starts a new one.
C20_NeverStranded ==
    /\ rs.waiting = 1 => InFlight > 0
    /\ \A r \in 1..rsRendered : Handlings(r) = 0 => InFlight > 0

====
